---- MODULE Spec2Model ----
(***************************************************************************)
(* InfraWatch, src/providers/azureProvider.py: the Azure VM inventory      *)
(* collector (AzureProvider.list_vms and its helpers), the report renderer *)
(* (display_vms_table) and the entry point (main).                         *)
(*                                                                         *)
(* Python strings are sequences of tokens.  A token is either the          *)
(* separator "/" or a slash-free word; no word used here is a prefix of    *)
(* another, so startswith, split and string comparison on the token        *)
(* sequences agree with the same operations on the characters.             *)
(***************************************************************************)
EXTENDS Integers, Sequences, FiniteSets, TLC

VARIABLES
  pc,               \* position of the process (main / list_vms / a single call)
  envFile,          \* find_dotenv() found a file
  subscriptionEnv,  \* os.getenv('AZURE_SUBSCRIPTION_ID'), NoneStr when unset
  credential,       \* self.credential in use: "none", "cli" or "default"
  authenticated,    \* what authenticate() returned
  clients,          \* self.compute_client / self.network_client are built
  calls,            \* management API calls issued so far, in order
  network,          \* the provider's network resources (NICs, public IPs)
  listed,           \* the VMs the provider listing has yielded so far
  oracles,          \* per yielded VM, which of its lookups failed
  vms,              \* list_vms local `vms`; display_vms_table argument
  returned,         \* value returned by list_vms
  output,           \* what display_vms_table printed
  exitCode,         \* process exit status, -1 while running
  vm,               \* loop local: the VM being enriched
  oracle,           \* which lookups fail for `vm`
  power_state,      \* loop local
  public_ip,        \* loop local
  private_ip        \* loop local

\* the environment the process runs in: it does not change during a run
world == <<envFile, subscriptionEnv, network>>
\* the provider object's fields
session == <<credential, authenticated, clients>>
\* the state of the list_vms loop
loop == <<listed, oracles, vms>>
\* the locals of one loop iteration
locals == <<vm, oracle, power_state, public_ip, private_ip>>

vars == <<pc, world, session, calls, loop, locals, returned, output, exitCode>>

-----------------------------------------------------------------------------
(* Bounds *)

MaxStatuses == 3
MaxCfgs == 2
MaxVms == 2
MaxRecs == 3

-----------------------------------------------------------------------------
(* Python values *)

SLASH == "/"

\* None where a string is expected (a reserved token no string contains)
NoneStr == <<"<None>">>

\* the sentinels of list_vms / get_vm_public_ip
UNKNOWN == <<"unknown">>
NA == <<"N", SLASH, "A">>
OS_UNKNOWN == <<"Unknown">>

\* 'PowerState/'
POWER_PREFIX == <<"PowerState", SLASH>>

\* marker for "an exception propagated out of this expression"
RAISED == <<"<raise>">>

\* index taken from vm.id.split('/')
RG_INDEX == 4

\* str.startswith
StartsWith(s, p) == Len(s) >= Len(p) /\ SubSeq(s, 1, Len(p)) = p

\* str.split('/'): the list of segments, empty segments kept
RECURSIVE Split(_)
Split(s) ==
  IF s = <<>> THEN << <<>> >>
  ELSE IF Head(s) = SLASH THEN << <<>> >> \o Split(Tail(s))
  ELSE LET r == Split(Tail(s)) IN << <<Head(s)>> \o Head(r) >> \o Tail(r)

\* seq[-1]
Last(q) == q[Len(q)]

\* bool(x) for an optional string: None and '' are falsy
TruthyStr(x) == x # NoneStr /\ x # <<>>

\* sequences over S of length 0..n
SeqsUpTo(S, n) == UNION {[1..k -> S] : k \in 0..n}

\* sequences of distinct elements of S
DistinctSeqs(S) ==
  {q \in SeqsUpTo(S, Cardinality(S)) : \A i, j \in DOMAIN q : i # j => q[i] # q[j]}

-----------------------------------------------------------------------------
(* Power state: list_vms, instance-view block *)

\* the last segment, as the code takes it
StateOfCode(code) == Last(Split(code))

\* for status in instance_view.statuses: if startswith: ...; break
RECURSIVE ScanStatuses(_)
ScanStatuses(statuses) ==
  IF statuses = <<>> THEN UNKNOWN
  ELSE IF StartsWith(Head(statuses), POWER_PREFIX) THEN StateOfCode(Head(statuses))
  ELSE ScanStatuses(Tail(statuses))

\* variant: "except: pass", the local keeps the value of the previous iteration
InstanceViewPowerStateStale(v, o) ==
  IF o.iv THEN power_state ELSE ScanStatuses(v.statuses)

\* try: instance_view(...); scan  except: "unknown"
InstanceViewPowerState(v, o) ==
  IF o.iv THEN UNKNOWN ELSE ScanStatuses(v.statuses)

-----------------------------------------------------------------------------
(* Network lookups: get_vm_public_ip and the private-IP block of list_vms *)

\* a lookup outcome: the value produced and the outbound calls issued for it
Outcome(val, cs) == [val |-> val, calls |-> cs]

\* marker for "no public IP on this interface, go on with the next one"
CONTINUE == <<"<continue>">>

NIC_GET == "network_interfaces.get"
PIP_GET == "public_ip_addresses.get"
IV_GET == "virtual_machines.instance_view"
LIST_ALL == "virtual_machines.list_all"

\* the calls that go to the management API
ManagementCalls == {NIC_GET, PIP_GET, IV_GET, LIST_ALL}

\* x.id.split('/')[-1]
NameOfId(id) == Last(Split(id))

\* network_client.public_ip_addresses.get(resource_group, pip_name).ip_address
FetchPublicIp(rg, pip_name, net, o) ==
  IF o.pip \/ <<rg, pip_name>> \notin DOMAIN net.pips
  THEN Outcome(RAISED, <<PIP_GET>>)
  ELSE Outcome(net.pips[<<rg, pip_name>>], <<PIP_GET>>)

\* variant: only the first IP configuration of a NIC is looked at
ScanConfigsFirstOnly(cfgs, rg, net, o) ==
  IF cfgs = <<>> THEN Outcome(CONTINUE, <<>>)
  ELSE IF Head(cfgs).public_ip_address # NoneStr
       THEN FetchPublicIp(rg, NameOfId(Head(cfgs).public_ip_address), net, o)
       ELSE Outcome(CONTINUE, <<>>)

\* for ip_config in nic.ip_configurations: if ip_config.public_ip_address: ... return
RECURSIVE ScanConfigs(_, _, _, _)
ScanConfigs(cfgs, rg, net, o) ==
  IF cfgs = <<>> THEN Outcome(CONTINUE, <<>>)
  ELSE IF Head(cfgs).public_ip_address # NoneStr
       THEN FetchPublicIp(rg, NameOfId(Head(cfgs).public_ip_address), net, o)
       ELSE ScanConfigs(Tail(cfgs), rg, net, o)

\* for nic_ref in vm.network_profile.network_interfaces: nic = get(...); scan
RECURSIVE ScanNics(_, _, _, _, _)
ScanNics(refs, i, rg, net, o) ==
  IF i > Len(refs) THEN Outcome(NA, <<>>)
  ELSE LET key == <<rg, NameOfId(refs[i])>> IN
       IF i \in o.nic \/ key \notin DOMAIN net.nics
       THEN Outcome(RAISED, <<NIC_GET>>)
       ELSE LET r == ScanConfigs(net.nics[key], rg, net, o) IN
            IF r.val = CONTINUE
            THEN LET rest == ScanNics(refs, i + 1, rg, net, o)
                 IN Outcome(rest.val, <<NIC_GET>> \o rest.calls)
            ELSE Outcome(r.val, <<NIC_GET>> \o r.calls)

\* get_vm_public_ip: try: ... except: return "N/A"
PublicIpLookup(v, rg, net, o) ==
  LET r == ScanNics(v.nics, 1, rg, net, o)
  IN IF r.val = RAISED THEN Outcome(NA, r.calls) ELSE r

get_vm_public_ip(v, rg, net, o) == PublicIpLookup(v, rg, net, o).val

\* variant: the first IP configuration that has a private address
RECURSIVE AnyConfigPrivateIp(_)
AnyConfigPrivateIp(cfgs) ==
  IF cfgs = <<>> THEN NA
  ELSE IF TruthyStr(Head(cfgs).private_ip_address) THEN Head(cfgs).private_ip_address
  ELSE AnyConfigPrivateIp(Tail(cfgs))

\* nic.ip_configurations[0].private_ip_address or "N/A"
FirstConfigPrivateIp(cfgs) ==
  IF TruthyStr(cfgs[1].private_ip_address) THEN cfgs[1].private_ip_address ELSE NA

\* private_ip = "N/A"; try: first NIC, first IP configuration; except: pass
PrivateIpLookup(v, rg, net, o) ==
  IF v.nics # <<>>
  THEN LET key == <<rg, NameOfId(v.nics[1])>> IN
       IF o.priv \/ key \notin DOMAIN net.nics
       THEN Outcome(NA, <<NIC_GET>>)
       ELSE IF net.nics[key] # <<>>
            THEN Outcome(FirstConfigPrivateIp(net.nics[key]), <<NIC_GET>>)
            ELSE Outcome(NA, <<NIC_GET>>)
  ELSE Outcome(NA, <<>>)

PrivateIp(v, rg, net, o) == PrivateIpLookup(v, rg, net, o).val

-----------------------------------------------------------------------------
(* Record assembly: list_vms, vm_data *)

\* vm.id.split('/')[4]; RAISED for the IndexError of a shorter id
ResourceGroupOf(id) ==
  LET parts == Split(id)
  IN IF Len(parts) >= RG_INDEX + 1 THEN parts[RG_INDEX + 1] ELSE RAISED

\* a Python dict of tags (None when the VM carries none)
NoTags == [none |-> TRUE, items |-> {}]
Dict(items) == [none |-> FALSE, items |-> items]

\* vm.tags or {}
TagsOrEmpty(tags) == IF ~tags.none /\ tags.items # {} THEN tags ELSE Dict({})

\* variant: tagged as soon as the VM carries a tags mapping
TaggedIfPresent(tags) == ~tags.none

\* len(vm_data['tags']) > 0
Tagged(tags) == Cardinality(tags.items) > 0

\* ... os_type.value if ... os_type else 'Unknown'
OsTypeOf(v) == IF v.os_type # NoneStr THEN v.os_type ELSE OS_UNKNOWN

\* building vm_data raises when vm.hardware_profile is None
AssemblyRaises(v) == v.hardware_profile = NoneStr

\* vm_data, with 'tagged' set from 'tags'
VmData(v, rg, ps, pub, priv) ==
  [name |-> v.name,
   resource_group |-> rg,
   size |-> v.hardware_profile,
   location |-> v.location,
   power_state |-> ps,
   os_type |-> OsTypeOf(v),
   public_ip |-> pub,
   private_ip |-> priv,
   tags |-> TagsOrEmpty(v.tags),
   provisioning_state |-> v.provisioning_state,
   tagged |-> Tagged(TagsOrEmpty(v.tags))]

-----------------------------------------------------------------------------
(* Report renderer: display_vms_table *)

RUNNING == <<"running">>
STOPPED == <<"stopped">>
DEALLOCATED == <<"deallocated">>

\* code point of a one-character token (the characters resource groups use here)
Ord(c) == CASE c = "A" -> 65 [] c = "B" -> 66

\* Python's str <
RECURSIVE StrLess(_, _)
StrLess(s, t) ==
  IF t = <<>> THEN FALSE
  ELSE IF s = <<>> THEN TRUE
  ELSE IF Head(s) = Head(t) THEN StrLess(Tail(s), Tail(t))
  ELSE Ord(Head(s)) < Ord(Head(t))

\* Python's tuple < on (rg, count) items
ItemLess(a, b) == StrLess(a[1], b[1]) \/ (a[1] = b[1] /\ a[2] < b[2])

\* color-coded power state of a row
StateDisplay(ps) ==
  IF ps = RUNNING THEN <<"green", ps>>
  ELSE IF ps \in {STOPPED, DEALLOCATED} THEN <<"red", ps>>
  ELSE <<"yellow", ps>>

\* table.add_row(...)
Row(r) ==
  [name |-> r.name, resource_group |-> r.resource_group, size |-> r.size,
   state |-> StateDisplay(r.power_state), os_type |-> r.os_type,
   public_ip |-> r.public_ip, tagged |-> r.tagged, location |-> r.location]

\* sum(1 for vm in vms if vm['power_state'] == 'running')
RECURSIVE RunningCount(_)
RunningCount(vs) ==
  IF vs = <<>> THEN 0
  ELSE (IF Head(vs).power_state = RUNNING THEN 1 ELSE 0) + RunningCount(Tail(vs))

\* sum(1 for vm in vms if not vm['tagged'])
RECURSIVE UntaggedCount(_)
UntaggedCount(vs) ==
  IF vs = <<>> THEN 0
  ELSE (IF ~Head(vs).tagged THEN 1 ELSE 0) + UntaggedCount(Tail(vs))

\* rg_counts[rg] = rg_counts.get(rg, 0) + 1, on a dict kept as its item list
DictIncr(d, rg) ==
  IF \E i \in DOMAIN d : d[i][1] = rg
  THEN [i \in DOMAIN d |-> IF d[i][1] = rg THEN <<rg, d[i][2] + 1>> ELSE d[i]]
  ELSE Append(d, <<rg, 1>>)

\* for vm in vms: count its resource group
RECURSIVE RgCounts(_, _)
RgCounts(vs, d) ==
  IF vs = <<>> THEN d ELSE RgCounts(Tail(vs), DictIncr(d, Head(vs).resource_group))

\* insert an item into a sorted list, after the items not greater than it
RECURSIVE Insert(_, _)
Insert(x, q) ==
  IF q = <<>> THEN <<x>>
  ELSE IF ItemLess(x, Head(q)) THEN <<x>> \o q
  ELSE <<Head(q)>> \o Insert(x, Tail(q))

\* variant: the items in insertion order
Unsorted(items) == items

\* sorted(rg_counts.items())
RECURSIVE Sorted(_)
Sorted(items) ==
  IF items = <<>> THEN <<>> ELSE Insert(Head(items), Sorted(Tail(items)))

GroupLine(item) == [kind |-> "group", rg |-> item[1], count |-> item[2]]

\* the "Summary stats" and "Resource group breakdown" prints
SummaryLines(vs) ==
  LET rg_counts == RgCounts(vs, <<>>)
      breakdown == Sorted(rg_counts)
  IN << [kind |-> "summary"],
        [kind |-> "total", count |-> Len(vs)],
        [kind |-> "running", count |-> RunningCount(vs)],
        [kind |-> "untagged", count |-> UntaggedCount(vs)],
        [kind |-> "groups", count |-> Len(rg_counts)] >>
     \o [i \in DOMAIN breakdown |-> GroupLine(breakdown[i])]

\* the whole function: the notice, or the table followed by the summary
display_vms_table(vs) ==
  IF vs = <<>>
  THEN << [kind |-> "notice"] >>
  ELSE << [kind |-> "table", found |-> Len(vs),
           rows |-> [i \in DOMAIN vs |-> Row(vs[i])]] >>
       \o SummaryLines(vs)

-----------------------------------------------------------------------------
(* Provider data *)

\* "/subscriptions/S/resourceGroups/<rg>/providers/<namespace>/<kind>/<name>"
ResourceId(rg, namespace, kind, name) ==
  <<SLASH, "subscriptions", SLASH, "S", SLASH, "resourceGroups", SLASH>> \o rg
  \o <<SLASH, "providers", SLASH, namespace, SLASH, kind, SLASH>> \o name

\* an id with too few segments for index RG_INDEX
ShortId == <<SLASH, "subscriptions", SLASH, "S">>

RG_A == <<"A">>
RG_B == <<"B">>
RG_AB == <<"A", "B">>

NIC1 == <<"nic1">>
NIC2 == <<"nic2">>
PIP1 == <<"pip1">>
PRIVATE_ADDR == <<"10.0.0.4">>
PUBLIC_ADDR == <<"52.0.0.1">>

VmId(rg, name) == ResourceId(rg, "Microsoft.Compute", "virtualMachines", name)
NicId(rg, name) == ResourceId(rg, "Microsoft.Network", "networkInterfaces", name)
PipId(rg, name) == ResourceId(rg, "Microsoft.Network", "publicIPAddresses", name)

MkVm(name, id, statuses, nics, tags, hw, os) ==
  [name |-> name, id |-> id, statuses |-> statuses, nics |-> nics, tags |-> tags,
   hardware_profile |-> hw, os_type |-> os,
   location |-> <<"westeurope">>, provisioning_state |-> <<"Succeeded">>]

IpConfig(pub, priv) == [public_ip_address |-> pub, private_ip_address |-> priv]

NoFailure == [iv |-> FALSE, nic |-> {}, pip |-> FALSE, priv |-> FALSE]

\* the local before its first assignment
Unset == NoneStr
NoVm == MkVm(Unset, Unset, <<>>, <<>>, NoTags, Unset, Unset)

\* status codes an instance view may carry
Codes ==
  { <<"ProvisioningState", SLASH, "succeeded">>,
    <<"PowerState", SLASH, "running">>,
    <<"PowerState", SLASH, "stopped">>,
    <<"PowerState", SLASH, "stopped", SLASH, "running">>,
    <<"PowerState", SLASH>>,
    <<"PowerState">>,
    <<"Display", "PowerState", SLASH, "running">> }

\* IP configurations a NIC may carry
IpConfigs ==
  { IpConfig(pub, priv) : pub \in {NoneStr, PipId(RG_A, PIP1)},
                          priv \in {NoneStr, PRIVATE_ADDR} }

\* the network of one resource group: two NICs and one public-IP resource
Networks ==
  { [nics |-> n, pips |-> p] :
      n \in [{<<RG_A, NIC1>>, <<RG_A, NIC2>>} -> SeqsUpTo(IpConfigs, MaxCfgs)],
      p \in [{<<RG_A, PIP1>>} -> {NoneStr, PUBLIC_ADDR}] }

\* the two networks the pipeline runs against: in each resource group nic1
\* carries a public and a private address, nic2 carries neither; the public
\* IP resource is allocated (an address) or not (None)
PipelineNetwork(addr) ==
  [nics |-> [k \in {RG_A, RG_B} \X {NIC1, NIC2} |->
               IF k[2] = NIC1
               THEN << IpConfig(PipId(k[1], PIP1), PRIVATE_ADDR) >>
               ELSE << IpConfig(NoneStr, NoneStr) >>],
   pips |-> [k \in {RG_A, RG_B} \X {PIP1} |-> addr]]

PipelineNetworks == {PipelineNetwork(a) : a \in {NoneStr, PUBLIC_ADDR}}

SIZE == <<"Standard_B1s">>
LINUX == <<"Linux">>

\* the VMs a listing may yield
VmUniverse ==
  { MkVm(<<"web1">>, VmId(RG_A, <<"web1">>),
         << <<"ProvisioningState", SLASH, "succeeded">>, <<"PowerState", SLASH, "running">> >>,
         << NicId(RG_A, NIC1) >>, Dict({<<"env", "prod">>}), SIZE, LINUX),
    MkVm(<<"db1">>, VmId(RG_B, <<"db1">>),
         << <<"PowerState", SLASH, "deallocated">> >>,
         << NicId(RG_B, NIC2), NicId(RG_B, NIC1) >>, NoTags, SIZE, NoneStr),
    MkVm(<<"bare">>, VmId(RG_A, <<"bare">>), <<>>, <<>>, Dict({}), SIZE, LINUX),
    MkVm(<<"nohw">>, VmId(RG_A, <<"nohw">>),
         << <<"PowerState", SLASH, "running">> >>,
         << NicId(RG_A, NIC1) >>, NoTags, NoneStr, LINUX),
    MkVm(<<"badid">>, ShortId, <<>>, <<>>, NoTags, SIZE, LINUX) }

\* which lookups of VM v may fail during one loop iteration: the instance
\* view, any of its NICs (a failing first NIC fails both times it is fetched)
\* and the public-IP resource
OraclesFor(v) ==
  { [iv |-> a, nic |-> n, pip |-> p, priv |-> (1 \in n)] :
      a \in BOOLEAN, n \in SUBSET (DOMAIN v.nics),
      p \in (IF v.nics = <<>> THEN {FALSE} ELSE BOOLEAN) }

-----------------------------------------------------------------------------
(* main *)

Line(kind) == [kind |-> kind]

Main_FindDotenv ==
  /\ pc = "main"
  /\ \/ /\ envFile
        /\ output' = output \o <<Line("found_env"), Line("subscription"), Line("header")>>
        /\ pc' = "provider"
        /\ UNCHANGED exitCode
     \/ /\ ~envFile
        /\ output' = output \o <<Line("found_env"), Line("no_env_file")>>
        /\ exitCode' = 1
        /\ pc' = "exit"
  /\ UNCHANGED <<world, session, calls, loop, locals, returned>>

\* AzureProvider(): __init__ calls get_subscription_id, which raises ValueError
Main_CreateProvider ==
  /\ pc = "provider"
  /\ \/ /\ TruthyStr(subscriptionEnv)
        /\ output' = output \o <<Line("fetching")>>
        /\ pc' = "authenticate"
        /\ UNCHANGED exitCode
     \/ /\ ~TruthyStr(subscriptionEnv)
        /\ output' = output \o <<Line("value_error")>>
        /\ exitCode' = 1
        /\ pc' = "exit"
  /\ UNCHANGED <<world, session, calls, loop, locals, returned>>

-----------------------------------------------------------------------------
(* AzureProvider.authenticate / initialize_clients *)

\* how the Azure CLI credential attempt (constructor, then get_token) ends
CliOutcomes == {"ok", "fails"}

\* authenticate(): True unless DefaultAzureCredential() raises after the CLI
\* attempt failed
AuthenticateResult(cli, dflt) == cli = "ok" \/ dflt

\* self.credential after authenticate()
CredentialAfter(cli, dflt) ==
  IF cli = "ok" THEN "cli" ELSE IF dflt THEN "default" ELSE "none"

Authenticate ==
  /\ pc = "authenticate"
  /\ \E cli \in CliOutcomes, dflt \in BOOLEAN :
       /\ authenticated' = AuthenticateResult(cli, dflt)
       /\ credential' = CredentialAfter(cli, dflt)
       /\ output' = output \o (IF AuthenticateResult(cli, dflt) THEN <<>>
                                ELSE <<Line("auth_error")>>)
  /\ pc' = "clients"
  /\ UNCHANGED <<world, clients, calls, loop, locals, returned, exitCode>>

\* variant: the result of authenticate() is ignored
InitializeClientsIgnoresAuth(auth, ctorOk) == ctorOk

\* initialize_clients(): False when authenticate() is, or when a client
\* constructor raises
InitializeClientsResult(auth, ctorOk) == auth /\ ctorOk

\* initialize_clients(), and list_vms' "if not ...: return []"
InitializeClients ==
  /\ pc = "clients"
  /\ \E ctorOk \in BOOLEAN :
       /\ clients' = (authenticated /\ ctorOk)
       /\ output' = output \o (IF authenticated /\ ~ctorOk
                                THEN <<Line("clients_error")>> ELSE <<>>)
       /\ IF InitializeClientsResult(authenticated, ctorOk)
          THEN pc' = "list_all" /\ UNCHANGED returned
          ELSE pc' = "display" /\ returned' = <<>>
  /\ UNCHANGED <<world, credential, authenticated, calls, loop, locals, exitCode>>

-----------------------------------------------------------------------------
(* AzureProvider.list_vms *)

\* variant: the handler returns what was collected
ExceptReturnCollected(collected) == collected

\* except Exception: print the error; return []
ExceptReturn(collected) == <<>>

ListVmsExcept ==
  /\ output' = output \o <<Line("fetch_error")>>
  /\ returned' = ExceptReturn(vms)
  /\ pc' = "display"

\* vms = []; all_vms = list_all()
ListVms_ListAll ==
  /\ pc = "list_all"
  /\ calls' = calls \o <<LIST_ALL>>
  /\ \/ /\ pc' = "loop"
        /\ UNCHANGED <<output, returned>>
     \/ ListVmsExcept
  /\ UNCHANGED <<world, session, loop, locals, exitCode>>

\* one iteration of "for vm in all_vms" that appends a record
ListVms_NextVm ==
  /\ pc = "loop"
  /\ Len(listed) < MaxVms
  /\ \E v \in VmUniverse :
       \E o \in OraclesFor(v) :
         LET rg == ResourceGroupOf(v.id)
             pub == PublicIpLookup(v, rg, network, o)
             priv == PrivateIpLookup(v, rg, network, o)
         IN /\ rg # RAISED
            /\ ~AssemblyRaises(v)
            /\ vm' = v
            /\ oracle' = o
            /\ power_state' = InstanceViewPowerState(v, o)
            /\ public_ip' = get_vm_public_ip(v, rg, network, o)
            /\ private_ip' = PrivateIp(v, rg, network, o)
            /\ calls' = calls \o <<IV_GET>> \o pub.calls \o priv.calls
            /\ listed' = Append(listed, v)
            /\ oracles' = Append(oracles, o)
            /\ vms' = Append(vms, VmData(v, rg, power_state', public_ip', private_ip'))
  /\ UNCHANGED <<pc, world, session, returned, output, exitCode>>

\* one iteration that raises outside the guarded lookups: on the resource
\* group (before any lookup) or on the record (after the lookups)
ListVms_VmRaises ==
  /\ pc = "loop"
  /\ Len(listed) < MaxVms
  /\ \E v \in VmUniverse :
       LET rg == ResourceGroupOf(v.id) IN
       \/ /\ rg = RAISED
          /\ vm' = v
          /\ listed' = Append(listed, v)
          /\ oracles' = Append(oracles, NoFailure)
          /\ UNCHANGED <<oracle, power_state, public_ip, private_ip, calls>>
       \/ /\ rg # RAISED
          /\ AssemblyRaises(v)
          /\ \E o \in OraclesFor(v) :
               /\ vm' = v
               /\ oracle' = o
               /\ power_state' = InstanceViewPowerState(v, o)
               /\ public_ip' = get_vm_public_ip(v, rg, network, o)
               /\ private_ip' = PrivateIp(v, rg, network, o)
               /\ calls' = calls \o <<IV_GET>> \o PublicIpLookup(v, rg, network, o).calls
                                 \o PrivateIpLookup(v, rg, network, o).calls
               /\ listed' = Append(listed, v)
               /\ oracles' = Append(oracles, o)
  /\ ListVmsExcept
  /\ UNCHANGED <<world, session, vms, exitCode>>

\* fetching the next page of the listing raises
ListVms_IterationRaises ==
  /\ pc = "loop"
  /\ ListVmsExcept
  /\ UNCHANGED <<world, session, calls, loop, locals, exitCode>>

\* the listing is exhausted: return vms
ListVms_Return ==
  /\ pc = "loop"
  /\ returned' = vms
  /\ pc' = "display"
  /\ UNCHANGED <<world, session, calls, loop, locals, output, exitCode>>

\* main: display_vms_table(vms), then the process ends
Display ==
  /\ pc = "display"
  /\ output' = output \o display_vms_table(returned)
  /\ exitCode' = 0
  /\ pc' = "exit"
  /\ UNCHANGED <<world, session, calls, loop, locals, returned>>

-----------------------------------------------------------------------------
(* The whole program *)

LocalsUnset ==
  /\ vm = NoVm
  /\ oracle = NoFailure
  /\ power_state = Unset
  /\ public_ip = Unset
  /\ private_ip = Unset

Idle ==
  /\ credential = "none"
  /\ authenticated = FALSE
  /\ clients = FALSE
  /\ calls = <<>>
  /\ listed = <<>>
  /\ oracles = <<>>
  /\ vms = <<>>
  /\ output = <<>>
  /\ exitCode = -1

Init ==
  /\ pc = "main"
  /\ envFile \in BOOLEAN
  /\ subscriptionEnv \in {NoneStr, <<"S">>}
  /\ network \in PipelineNetworks
  /\ returned = <<>>
  /\ Idle
  /\ LocalsUnset

Next ==
  \/ Main_FindDotenv
  \/ Main_CreateProvider
  \/ Authenticate
  \/ InitializeClients
  \/ ListVms_ListAll
  \/ ListVms_NextVm
  \/ ListVms_VmRaises
  \/ ListVms_IterationRaises
  \/ ListVms_Return
  \/ Display

Spec == Init /\ [][Next]_vars

-----------------------------------------------------------------------------
(* The instance-view block alone, on every status list *)

InitPower ==
  /\ pc = "instance_view"
  /\ envFile = TRUE
  /\ subscriptionEnv = <<"S">>
  /\ network = PipelineNetwork(PUBLIC_ADDR)
  /\ returned = <<>>
  /\ Idle
  /\ \E st \in SeqsUpTo(Codes, MaxStatuses) :
       vm = MkVm(<<"web1">>, VmId(RG_A, <<"web1">>), st, <<>>, NoTags, SIZE, LINUX)
  /\ oracle = NoFailure
  /\ power_state = Unset
  /\ public_ip = Unset
  /\ private_ip = Unset

InstanceView ==
  /\ pc = "instance_view"
  /\ \E f \in BOOLEAN :
       /\ oracle' = [NoFailure EXCEPT !.iv = f]
       /\ power_state' = InstanceViewPowerState(vm, oracle')
  /\ calls' = calls \o <<IV_GET>>
  /\ pc' = "done"
  /\ UNCHANGED <<world, session, loop, vm, public_ip, private_ip, returned,
                 output, exitCode>>

SpecPower == InitPower /\ [][InstanceView]_vars

-----------------------------------------------------------------------------
(* The two IP lookups alone, on every network of one resource group *)

InitNet ==
  /\ pc = "network"
  /\ envFile = TRUE
  /\ subscriptionEnv = <<"S">>
  /\ network \in Networks
  /\ returned = <<>>
  /\ Idle
  /\ \E refs \in DistinctSeqs({NicId(RG_A, NIC1), NicId(RG_A, NIC2)}) :
       vm = MkVm(<<"web1">>, VmId(RG_A, <<"web1">>), <<>>, refs, NoTags, SIZE, LINUX)
  /\ oracle = NoFailure
  /\ power_state = Unset
  /\ public_ip = Unset
  /\ private_ip = Unset

GetVmPublicIp ==
  /\ pc = "network"
  /\ \E n \in SUBSET (DOMAIN vm.nics), p \in BOOLEAN :
       /\ oracle' = [NoFailure EXCEPT !.nic = n, !.pip = p]
       /\ public_ip' = get_vm_public_ip(vm, ResourceGroupOf(vm.id), network, oracle')
       /\ calls' = calls \o PublicIpLookup(vm, ResourceGroupOf(vm.id), network, oracle').calls
  /\ pc' = "public_done"
  /\ UNCHANGED <<world, session, loop, vm, power_state, private_ip, returned,
                 output, exitCode>>

GetPrivateIp ==
  /\ pc = "network"
  /\ \E q \in BOOLEAN :
       /\ oracle' = [NoFailure EXCEPT !.priv = q]
       /\ private_ip' = PrivateIp(vm, ResourceGroupOf(vm.id), network, oracle')
       /\ calls' = calls \o PrivateIpLookup(vm, ResourceGroupOf(vm.id), network, oracle').calls
  /\ pc' = "private_done"
  /\ UNCHANGED <<world, session, loop, vm, power_state, public_ip, returned,
                 output, exitCode>>

NextNet == GetVmPublicIp \/ GetPrivateIp

SpecNet == InitNet /\ [][NextNet]_vars

-----------------------------------------------------------------------------
(* The renderer alone, on every record list *)

\* a record as list_vms builds it, for the fields the renderer reads
MkRecord(rg, ps, tagged) ==
  [name |-> <<"vm">>, resource_group |-> rg, size |-> SIZE,
   location |-> <<"westeurope">>, power_state |-> ps, os_type |-> LINUX,
   public_ip |-> NA, private_ip |-> NA,
   tags |-> Dict(IF tagged THEN {<<"env", "prod">>} ELSE {}),
   provisioning_state |-> <<"Succeeded">>, tagged |-> tagged]

Records ==
  { MkRecord(rg, ps, t) : rg \in {RG_A, RG_B, RG_AB},
                          ps \in {RUNNING, STOPPED, UNKNOWN}, t \in BOOLEAN }

InitRender ==
  /\ pc = "display"
  /\ envFile = TRUE
  /\ subscriptionEnv = <<"S">>
  /\ network = PipelineNetwork(PUBLIC_ADDR)
  /\ returned \in SeqsUpTo(Records, MaxRecs)
  /\ Idle
  /\ LocalsUnset

SpecRender == InitRender /\ [][Display]_vars

-----------------------------------------------------------------------------
(* Properties *)

Kinds(out) == {out[k].kind : k \in DOMAIN out}

\* list_vms ran to its "return vms"
NormalReturn ==
  pc \in {"display", "exit"} /\ clients /\ "fetch_error" \notin Kinds(output)

\* the record of VM v when none of its lookups fails
FailureFree(v) ==
  LET rg == ResourceGroupOf(v.id)
  IN VmData(v, rg, InstanceViewPowerState(v, NoFailure),
            get_vm_public_ip(v, rg, network, NoFailure),
            PrivateIp(v, rg, network, NoFailure))

\* one record per listed VM, in listing order; a failed lookup gives the
\* sentinel of its own field, every other field is as without failures
RecordsIsolated(rs) ==
  /\ Len(rs) = Len(listed)
  /\ Len(oracles) = Len(listed)
  /\ \A i \in DOMAIN rs :
       LET r == rs[i]
           o == oracles[i]
           ff == FailureFree(listed[i])
       IN /\ r.name = listed[i].name
          /\ o.iv => r.power_state = UNKNOWN
          /\ ~o.iv => r.power_state = ff.power_state
          /\ 1 \in o.nic => r.public_ip = NA /\ r.private_ip = NA
          /\ o.pip => r.public_ip = NA
          /\ (o.nic = {} /\ ~o.pip) => r.public_ip = ff.public_ip
          /\ ~o.priv => r.private_ip = ff.private_ip
          /\ [r EXCEPT !.power_state = UNKNOWN, !.public_ip = NA, !.private_ip = NA]
             = [ff EXCEPT !.power_state = UNKNOWN, !.public_ip = NA, !.private_ip = NA]

\* C1: whatever combination of a VM's instance-view, network-interface and
\* public-IP lookups fails, collection continues: there is exactly one record
\* per listed VM, in listing order, and a failed lookup only turns that VM's
\* own field into its sentinel ("unknown", "N/A").
C1_LookupFailuresAreIsolated ==
  /\ pc = "loop" => RecordsIsolated(vms)
  /\ NormalReturn => RecordsIsolated(returned)

\* a run that returned two records, the first with all three lookups failed,
\* the second untouched by it
C1_Witness ==
  /\ pc = "exit"
  /\ NormalReturn
  /\ Len(returned) = 2
  /\ oracles[1].iv /\ 1 \in oracles[1].nic /\ oracles[1].pip
  /\ returned[1].power_state = UNKNOWN /\ returned[1].public_ip = NA
  /\ oracles[2] = NoFailure
  /\ returned[2].power_state = RUNNING
  /\ returned[2].public_ip = PUBLIC_ADDR
  /\ returned[2].private_ip = PRIVATE_ADDR

\* C2: every record returned by list_vms has public_ip and private_ip equal
\* to an IP address string or the sentinel "N/A", never None.
C2_IpsAreAddressOrNA ==
  \A i \in DOMAIN returned :
    /\ returned[i].public_ip \in {PUBLIC_ADDR, NA}
    /\ returned[i].private_ip \in {PRIVATE_ADDR, NA}

\* the first status code that starts with 'PowerState/', by position
FirstPowerIndex(statuses) ==
  CHOOSE k \in DOMAIN statuses :
    /\ StartsWith(statuses[k], POWER_PREFIX)
    /\ \A j \in 1..(k - 1) : ~StartsWith(statuses[j], POWER_PREFIX)

\* what follows the prefix in a code
Remainder(code) == SubSeq(code, Len(POWER_PREFIX) + 1, Len(code))

\* C3: power_state is the remainder after the prefix "PowerState/" of the
\* first status code with that prefix, and "unknown" when there is none or
\* the instance-view call fails.
C3_PowerStateIsRemainderOfFirst ==
  pc = "done" =>
    IF oracle.iv \/ ~\E k \in DOMAIN vm.statuses : StartsWith(vm.statuses[k], POWER_PREFIX)
    THEN power_state = UNKNOWN
    ELSE power_state = Remainder(vm.statuses[FirstPowerIndex(vm.statuses)])

\* the NIC resource a reference of the single-group network names
NicOfRef(ref) ==
  IF ref = NicId(RG_A, NIC1) THEN network.nics[<<RG_A, NIC1>>]
  ELSE network.nics[<<RG_A, NIC2>>]

\* C4: private_ip is the private address of the first IP configuration of
\* the first attached NIC, and "N/A" when there is no NIC, the fetch fails,
\* the NIC has no IP configuration or that configuration has no private
\* address; later NICs and configurations are never consulted.
C4_PrivateIpFirstNicFirstConfig ==
  pc = "private_done" =>
    IF vm.nics = <<>> \/ oracle.priv THEN private_ip = NA
    ELSE LET cfgs == NicOfRef(vm.nics[1])
         IN IF cfgs = <<>> THEN private_ip = NA
            ELSE IF cfgs[1].private_ip_address = NoneStr THEN private_ip = NA
            ELSE private_ip = cfgs[1].private_ip_address

\* first NIC without a private address, second NIC with one: "N/A"
C4_Witness ==
  /\ pc = "private_done"
  /\ ~oracle.priv
  /\ Len(vm.nics) = 2
  /\ NicOfRef(vm.nics[1]) # <<>>
  /\ NicOfRef(vm.nics[1])[1].private_ip_address = NoneStr
  /\ NicOfRef(vm.nics[2]) # <<>>
  /\ NicOfRef(vm.nics[2])[1].private_ip_address = PRIVATE_ADDR
  /\ private_ip = NA

\* the (NIC, configuration) positions that reference a public-IP resource
PublicRefs ==
  UNION { { <<i, j>> : j \in { k \in DOMAIN NicOfRef(vm.nics[i]) :
                                 NicOfRef(vm.nics[i])[k].public_ip_address # NoneStr } } :
          i \in DOMAIN vm.nics }

Before(p, q) == p[1] < q[1] \/ (p[1] = q[1] /\ p[2] < q[2])

\* the NIC holding the first such position, or the last NIC when there is none
LastNicFetched ==
  IF PublicRefs = {} THEN Len(vm.nics)
  ELSE (CHOOSE p \in PublicRefs : \A q \in PublicRefs : q = p \/ Before(p, q))[1]

\* C5: get_vm_public_ip goes through the NICs in order and through each
\* NIC's IP configurations in order, and returns the fetched address of the
\* first configuration that references a public-IP resource; it returns
\* "N/A" when none does, and when any step up to there fails.
C5_PublicIpFirstReferenceOfAll ==
  pc = "public_done" =>
    IF \E i \in oracle.nic : i <= LastNicFetched THEN public_ip = NA
    ELSE IF PublicRefs = {} THEN public_ip = NA
    ELSE IF oracle.pip THEN public_ip = NA
    ELSE public_ip = network.pips[<<RG_A, PIP1>>]

\* the only reference is on the second configuration of the second NIC, and
\* its address is returned
C5_Witness ==
  /\ pc = "public_done"
  /\ oracle = NoFailure
  /\ Len(vm.nics) = 2
  /\ PublicRefs = {<<2, 2>>}
  /\ public_ip = PUBLIC_ADDR

\* C6: for every record, tagged is true exactly when tags is non-empty, and
\* tags absent on the VM become the empty mapping.
C6_TaggedIffTagsNonEmpty ==
  \A rs \in {vms, returned} :
    \A i \in DOMAIN rs :
      /\ ~rs[i].tags.none
      /\ rs[i].tagged = (rs[i].tags.items # {})
      /\ listed[i].tags.none => rs[i].tags = Dict({})
      /\ ~listed[i].tags.none => rs[i].tags = listed[i].tags

\* a returned list with an untagged record from a VM without tags and a
\* tagged one
C6_Witness ==
  /\ Len(returned) = 2
  /\ listed[1].tags.none /\ ~returned[1].tagged
  /\ listed[2].tags.items # {} /\ returned[2].tagged

\* authenticate() or the client constructors failed in this run
InitFailed == Kinds(output) \cap {"auth_error", "clients_error"} # {}

\* C7: when authentication or the construction of the clients fails,
\* list_vms returns the empty list and issues no management call; every
\* management call is preceded by a successful authenticate and
\* initialize_clients.
C7_NoCallWithoutSession ==
  /\ (InitFailed /\ pc \in {"display", "exit"}) => (returned = <<>> /\ calls = <<>>)
  /\ calls # <<>> => (authenticated /\ clients)

\* a finished run whose authentication failed
C7_Witness ==
  /\ pc = "exit"
  /\ ~authenticated
  /\ "auth_error" \in Kinds(output)
  /\ returned = <<>>
  /\ calls = <<>>

\* what display_vms_table prints
ReportKinds == {"notice", "table", "summary", "total", "running", "untagged",
                "groups", "group"}

\* C8: in each fatal case (environment file missing, subscription id unset,
\* authentication failure) the process aborts without any report output:
\* display_vms_table is never invoked; a missing environment file gives
\* exit code 1.
C8_FatalCasesPrintNoReport ==
  pc = "exit" =>
    /\ (~envFile \/ ~TruthyStr(subscriptionEnv) \/ "auth_error" \in Kinds(output))
         => (Kinds(output) \cap ReportKinds = {} /\ exitCode # 0)
    /\ ~envFile => exitCode = 1

\* the resource groups of the renderer's inputs, in ascending order
RgRank(rg) == CASE rg = RG_A -> 1 [] rg = RG_AB -> 2 [] rg = RG_B -> 3

GroupsOf(rs) == {rs[i].resource_group : i \in DOMAIN rs}

\* C9: for a non-empty list, the summary printed after the table is: total =
\* number of records, running = records with power_state "running", untagged
\* = records not tagged, resource groups = distinct groups, then one line
\* per distinct group with its record count, in ascending order of name.
C9_SummaryIsAggregate ==
  (pc = "exit" /\ returned # <<>>) =>
    LET n == Cardinality(GroupsOf(returned)) IN
    /\ Len(output) = 6 + n
    /\ output[1].kind = "table" /\ output[2].kind = "summary"
    /\ output[3] = [kind |-> "total", count |-> Len(returned)]
    /\ output[4] = [kind |-> "running", count |->
         Cardinality({i \in DOMAIN returned : returned[i].power_state = RUNNING})]
    /\ output[5] = [kind |-> "untagged", count |->
         Cardinality({i \in DOMAIN returned : ~returned[i].tagged})]
    /\ output[6] = [kind |-> "groups", count |-> n]
    /\ \A k \in 7..(6 + n) :
         /\ output[k].kind = "group"
         /\ output[k].rg \in GroupsOf(returned)
         /\ output[k].count =
              Cardinality({i \in DOMAIN returned : returned[i].resource_group = output[k].rg})
         /\ \A l \in (k + 1)..(6 + n) : RgRank(output[k].rg) < RgRank(output[l].rg)

\* the three-VM scenario given with group B first: Total 3, Running 1,
\* Untagged 1, then A: 2 before B: 1
C9_Witness ==
  /\ pc = "exit"
  /\ returned = << MkRecord(RG_B, UNKNOWN, TRUE), MkRecord(RG_A, RUNNING, TRUE),
                   MkRecord(RG_A, STOPPED, FALSE) >>
  /\ SubSeq(output, 3, 8) =
       << [kind |-> "total", count |-> 3], [kind |-> "running", count |-> 1],
          [kind |-> "untagged", count |-> 1], [kind |-> "groups", count |-> 2],
          [kind |-> "group", rg |-> RG_A, count |-> 2],
          [kind |-> "group", rg |-> RG_B, count |-> 1] >>

\* C10: list_vms returns one record for every listed VM or the empty list,
\* never a proper non-empty prefix; when the listing call, the iteration or
\* the assembly of a record raises, the records collected so far are
\* discarded and the empty list is returned.
C10_AllOrNothing ==
  /\ \/ returned = <<>>
     \/ /\ Len(returned) = Len(listed)
        /\ \A i \in DOMAIN returned : returned[i].name = listed[i].name
  /\ "fetch_error" \in Kinds(output) => returned = <<>>

\* a record had been collected when a later VM raised: nothing is returned
C10_Witness ==
  /\ pc = "exit"
  /\ "fetch_error" \in Kinds(output)
  /\ Len(vms) = 1
  /\ Len(listed) = 2
  /\ returned = <<>>

====
